---- MODULE Spec2Model ----
(***************************************************************************)
(* Model of the note segmentation engine (src/src/core/parsing.py), the    *)
(* retrieval orchestrator (src/src/core/retriever.py, and its earlier      *)
(* iteration src/retriever.py) and the query planner                       *)
(* (src/src/core/query_planner.py) of obsidian-rag-project.                *)
(*                                                                         *)
(* Text is a sequence of characters, each a one-character string.  Two     *)
(* characters cannot be written inside a TLA+ string and are named:        *)
(* NL is the line feed and BT the backtick (U+0060).                       *)
(* Python indexes from 0, TLA+ sequences from 1: every line index of the   *)
(* model is the Python index plus one.                                     *)
(***************************************************************************)
EXTENDS Integers, Sequences, FiniteSets, TLC

VARIABLES
    \* parse_headings (src/src/core/parsing.py)
    text,               \* the argument of parse_headings
    lines,              \* text.split("\n")
    target_level,       \* the heading depth of the current pass, 1..6 (7: loop over)
    sections,           \* the ContentSection list built so far
    section_start,      \* per section, the line index of its heading (local section_start)
    section_id_counter, \* the next section id
    ppc,                \* position in parse_headings: "scan" or "done"
    \* retrieve_context (src/src/core/retriever.py, src/retriever.py)
    query_plan,         \* the argument query_plan
    store_calls,        \* the requests made to the vector store, in order
    store_results,      \* what the vector store answered (None before the request)
    processed_sections, \* the local processed_sections
    result,             \* the returned package (None before the return)
    rpc,                \* position in retrieve_context
    \* deconstruct_query (src/src/core/query_planner.py)
    user_query,         \* the argument user_query
    max_retries,        \* the argument max_retries
    attempt,            \* the loop variable attempt
    completions,        \* the answers of the completion service to the requests so far
    sleeps,             \* the wait_time of every time.sleep so far
    plan_result,        \* the value returned (None before the return)
    qpc,                \* position in deconstruct_query
    \* one section of a note, stored and then looked up by a filter
    note_tags,          \* the note's tag_wikilinks
    note_wikilinks,     \* the note's wikilinks
    payload,            \* the metadata the section is stored with (None before)
    scan_filter,        \* the filter of the plan
    store_matching,     \* how the vector store compares a stored field with a value
    matched,            \* whether the scan returned the section
    mpc,                \* position in the store-and-scan run
    \* Note.from_file and NoteProcessor.process_note on one file
    note_file,          \* the file: its path, whether it exists, its text, its mtime
    parsed_note,        \* the Note built from the file (None before)
    note_documents,     \* the ProcessedDocuments process_note has yielded
    npc,                \* position in the run on one file
    \* batch ingestion of a vault
    vault_files,        \* the markdown files found in the vault, in scan order
    files_processed,    \* the files processed without an error so far
    stored_documents,   \* the documents handed to the store so far
    errors,             \* the failures collected so far
    ipc                 \* position in the batch

parseVars == <<text, lines, target_level, sections, section_start,
               section_id_counter, ppc>>

retrVars == <<query_plan, store_calls, store_results, processed_sections, result, rpc>>

planVars == <<user_query, max_retries, attempt, completions, sleeps, plan_result, qpc>>

matchVars == <<note_tags, note_wikilinks, payload, scan_filter, store_matching,
               matched, mpc>>

ingestVars == <<note_file, parsed_note, note_documents, npc,
                vault_files, files_processed, stored_documents, errors, ipc>>

vars == <<parseVars, retrVars, planVars, matchVars, ingestVars>>

----------------------------------------------------------------------------
(* Bounds of the model *)

\* the longest text, in lines
MaxLines == 4

\* the most hits the vector store returns to one request
MaxHits == 3

\* the largest max_retries deconstruct_query is called with
MaxRetriesBound == 3

\* the most tags, and the most wikilinks, of a note
MaxTags == 2

\* the most files of a vault
MaxFiles == 3

----------------------------------------------------------------------------
(* Characters and strings *)

NL == "LF"
BT == "BT"

\* str.strip() and the regex class \s: the whitespace characters of the model
IsSpace(c) == c \in {" ", NL}

RECURSIVE LStrip(_)
LStrip(s) == IF s # <<>> /\ IsSpace(Head(s)) THEN LStrip(Tail(s)) ELSE s

RECURSIVE RStrip(_)
RStrip(s) ==
    IF s # <<>> /\ IsSpace(s[Len(s)]) THEN RStrip(SubSeq(s, 1, Len(s) - 1)) ELSE s

\* str.strip()
Strip(s) == RStrip(LStrip(s))

\* "\n".join(ls)
RECURSIVE Join(_)
Join(ls) ==
    IF ls = <<>> THEN <<>>
    ELSE IF Len(ls) = 1 THEN ls[1]
    ELSE ls[1] \o <<NL>> \o Join(Tail(ls))

\* str.split("\n"): never empty, the empty text gives one empty line; the k-th
\* line stands between the (k-1)-th and the k-th line end
Split(s) ==
    LET ends == {i \in 1..Len(s) : s[i] = NL}
        EndOf(k) == IF k = 0 THEN 0
                    ELSE IF k = Cardinality(ends) + 1 THEN Len(s) + 1
                    ELSE CHOOSE i \in ends : Cardinality({j \in ends : j < i}) = k - 1
    IN  [k \in 1..(Cardinality(ends) + 1) |-> SubSeq(s, EndOf(k - 1) + 1, EndOf(k) - 1)]

\* f"{n}" of a non-negative integer
Digits == <<"0", "1", "2", "3", "4", "5", "6", "7", "8", "9">>

RECURSIVE ToStr(_)
ToStr(n) ==
    IF n < 10 THEN <<Digits[n + 1]>>
    ELSE ToStr(n \div 10) \o <<Digits[(n % 10) + 1]>>

----------------------------------------------------------------------------
(* parse_headings: src/src/core/parsing.py *)

\* range(1, 7): the deepest heading level that gets a pass
MaxHeadingLevel == 6

NoHeading == <<"<", "N", "o", " ", "H", "e", "a", "d", "i", "n", "g", ">">>

\* the number of leading '#' characters of a line
RECURSIVE HashRun(_)
HashRun(line) ==
    IF line # <<>> /\ Head(line) = "#" THEN 1 + HashRun(Tail(line)) ELSE 0

\* target_pattern.match(line), target_pattern = ^#{target_level}\s+(.*)
target_pattern_match(level, line) ==
    /\ HashRun(line) = level
    /\ Len(line) > level
    /\ IsSpace(line[level + 1])

\* heading_match.group(1): what follows the run of whitespace after the '#'s
heading_group(level, line) == LStrip(SubSeq(line, level + 1, Len(line)))

\* re.match(r"^(#+)\s+", current_line)
heading_check(line) ==
    /\ HashRun(line) >= 1
    /\ Len(line) > HashRun(line)
    /\ IsSpace(line[HashRun(line) + 1])

\* s.startswith("```")
StartsWithFence(s) ==
    /\ Len(s) >= 3
    /\ s[1] = BT /\ s[2] = BT /\ s[3] = BT

\* the loop of is_heading_followed_by_code over range(heading_index + 1, len(lines))
RECURSIVE FirstNonEmptyIsCode(_, _)
FirstNonEmptyIsCode(ls, i) ==
    IF i > Len(ls) THEN FALSE
    ELSE IF Strip(ls[i]) # <<>> THEN StartsWithFence(Strip(ls[i]))
    ELSE FirstNonEmptyIsCode(ls, i + 1)

is_heading_followed_by_code(ls, heading_index) ==
    IF heading_index + 1 > Len(ls) THEN FALSE
    ELSE FirstNonEmptyIsCode(ls, heading_index + 1)

\* a mutant of CodeBlockClosed: the section ends on the fence that opens the block
CodeBlockClosed_onOpen(in_code_block) == ~in_code_block

\* "in_code_block = not in_code_block; if not in_code_block": a fence line met
\* while in_code_block holds closes the block
CodeBlockClosed(in_code_block) == in_code_block

\* the while loop of a code-titled section: (section_content, i) when it ends
RECURSIVE CodeTitledLoop(_, _, _, _)
CodeTitledLoop(ls, i, in_code_block, section_content) ==
    IF i > Len(ls) THEN [section_content |-> section_content, i |-> i]
    ELSE LET current_line == ls[i]
             appended == Append(section_content, current_line)
         IN  IF StartsWithFence(Strip(current_line))
             THEN IF CodeBlockClosed(in_code_block)
                  THEN [section_content |-> appended, i |-> i + 1]
                  ELSE CodeTitledLoop(ls, i + 1, TRUE, appended)
             ELSE CodeTitledLoop(ls, i + 1, in_code_block, appended)

\* a mutant of EndsSection: only a strictly shallower heading ends the section
EndsSection_strict(current_level, level) == current_level < level

\* "if current_level <= target_level: break"
EndsSection(current_level, level) == current_level <= level

\* the while loop of a regular section: (section_content, i) when it ends
RECURSIVE RegularLoop(_, _, _, _)
RegularLoop(ls, i, level, section_content) ==
    IF i > Len(ls) THEN [section_content |-> section_content, i |-> i]
    ELSE LET current_line == ls[i]
         IN  IF heading_check(current_line) /\ EndsSection(HashRun(current_line), level)
             THEN [section_content |-> section_content, i |-> i]
             ELSE RegularLoop(ls, i + 1, level, Append(section_content, current_line))

\* ContentSection(id, heading, content, level)
ContentSection(id, heading, content, level) ==
    [id |-> id, heading |-> heading, content |-> content, level |-> level]

\* a mutant of LevelPass: section_id_counter is not advanced after a section
RECURSIVE LevelPass_counterNotAdvanced(_, _, _, _, _, _)
LevelPass_counterNotAdvanced(ls, level, i, secs, starts, counter) ==
    IF i > Len(ls) THEN [sections |-> secs, section_start |-> starts, counter |-> counter]
    ELSE IF target_pattern_match(level, ls[i])
    THEN LET heading_text == heading_group(level, ls[i])
             is_code_titled == is_heading_followed_by_code(ls, i)
             got == IF is_code_titled
                    THEN CodeTitledLoop(ls, i + 1, FALSE, <<>>)
                    ELSE RegularLoop(ls, i + 1, level, <<>>)
             content == Strip(Join(got.section_content))
         IN  LevelPass_counterNotAdvanced(
                 ls, level, got.i,
                 Append(secs, ContentSection(ToStr(counter), Strip(heading_text),
                                             content, level)),
                 Append(starts, i),
                 counter)
    ELSE LevelPass_counterNotAdvanced(ls, level, i + 1, secs, starts, counter)

\* one pass "while i < len(lines)" for one target_level, from line i on:
\* the sections, their heading lines and the id counter after the pass
RECURSIVE LevelPass(_, _, _, _, _, _)
LevelPass(ls, level, i, secs, starts, counter) ==
    IF i > Len(ls) THEN [sections |-> secs, section_start |-> starts, counter |-> counter]
    ELSE IF target_pattern_match(level, ls[i])
    THEN LET heading_text == heading_group(level, ls[i])
             is_code_titled == is_heading_followed_by_code(ls, i)
             got == IF is_code_titled
                    THEN CodeTitledLoop(ls, i + 1, FALSE, <<>>)
                    ELSE RegularLoop(ls, i + 1, level, <<>>)
             content == Strip(Join(got.section_content))
         IN  LevelPass(ls, level, got.i,
                       Append(secs, ContentSection(ToStr(counter), Strip(heading_text),
                                                   content, level)),
                       Append(starts, i),
                       counter + 1)
    ELSE LevelPass(ls, level, i + 1, secs, starts, counter)

\* a mutant of FallbackSection: the whole text, not trimmed
FallbackSection_raw(t) == ContentSection(<<"0">>, NoHeading, t, 0)

\* the section of a text without headings
FallbackSection(t) == ContentSection(<<"0">>, NoHeading, Strip(t), 0)

\* the lines a text is drawn from
LinePool ==
    { <<>>,                        \* an empty line
      <<"a">>,                     \* a line of text
      <<"#", " ", "A">>,           \* a depth-1 heading
      <<"#", "#", " ", "B">>,      \* a depth-2 heading
      <<BT, BT, BT>>,              \* a code fence
      <<" ", BT, BT, BT>>,         \* an indented code fence
      <<"#", "a">> }               \* '#' without whitespace: no heading

RECURSIVE SeqsUpTo(_, _)
SeqsUpTo(S, n) ==
    IF n = 0 THEN {<<>>}
    ELSE LET shorter == SeqsUpTo(S, n - 1)
         IN  shorter \cup {Append(s, x) : s \in {t \in shorter : Len(t) = n - 1}, x \in S}

Texts == {Join(ls) : ls \in SeqsUpTo(LinePool, MaxLines) \ {<<>>}}

ParseStart ==
    /\ text \in Texts
    /\ lines = Split(text)
    /\ target_level = 1
    /\ sections = <<>>
    /\ section_start = <<>>
    /\ section_id_counter = 0
    /\ ppc = "scan"

\* one iteration of "for target_level in range(1, 7)"
ParseLevel ==
    /\ ppc = "scan"
    /\ target_level <= MaxHeadingLevel
    /\ LET pass == LevelPass(lines, target_level, 1, sections, section_start,
                             section_id_counter)
       IN  /\ sections' = pass.sections
           /\ section_start' = pass.section_start
           /\ section_id_counter' = pass.counter
    /\ target_level' = target_level + 1
    /\ UNCHANGED <<text, lines, ppc>>
    /\ UNCHANGED <<retrVars, planVars, matchVars, ingestVars>>

\* "if not sections: ..." and the return
ParseReturn ==
    /\ ppc = "scan"
    /\ target_level > MaxHeadingLevel
    /\ IF sections = <<>>
       THEN /\ sections' = <<FallbackSection(text)>>
            /\ section_start' = <<0>>
       ELSE UNCHANGED <<sections, section_start>>
    /\ ppc' = "done"
    /\ UNCHANGED <<text, lines, target_level, section_id_counter>>
    /\ UNCHANGED <<retrVars, planVars, matchVars, ingestVars>>

ParseNext == ParseLevel \/ ParseReturn

----------------------------------------------------------------------------
(* Values shared by the retrieval orchestrator and the query planner *)

\* Python's None where a string is expected
None == "<None>"

\* Python's None where a dict is expected: a value no dict of the model equals
NoneObj == [py_none |-> TRUE]

\* dict.get(key, default); a dict is a function from its keys
Get(d, key, default) == IF key \in DOMAIN d THEN d[key] ELSE default

\* "not x" of a string or None
Falsy(x) == x = None \/ x = ""

\* "k in d", d[k] = v and list(d.values()) of a dict that keeps insertion order,
\* held as the sequence of its (key, value) entries
InDict(k, d) == \E i \in 1..Len(d) : d[i].key = k

DictSet(d, k, v) ==
    IF InDict(k, d)
    THEN [i \in 1..Len(d) |-> IF d[i].key = k THEN [key |-> k, value |-> v] ELSE d[i]]
    ELSE Append(d, [key |-> k, value |-> v])

DictValues(d) == [i \in 1..Len(d) |-> d[i].value]

----------------------------------------------------------------------------
(* The vector store: an external collaborator *)

\* a stored section: the id it was stored under, its text and its metadata
StoredDoc(id, content, title, path, heading, level) ==
    [id |-> id, page_content |-> content,
     metadata |-> [title |-> title, file_path |-> path, heading |-> heading,
                   level |-> level, tags |-> "t1,t2"]]

StoredDocs ==
    { StoredDoc(<<"A.md", "::", "0">>, "A | Intro", "A", "/vault/A.md", "Intro", 1),
      StoredDoc(<<"A.md", "::", "1">>, "A | Setup", "A", "/vault/A.md", "Setup", 1),
      StoredDoc(<<"A.md", "::", "2">>, "A | Usage", "A", "/vault/A.md", "Usage", 2),
      StoredDoc(<<"B.md", "::", "0">>, "B | Intro", "B", "/vault/B.md", "Intro", 1),
      StoredDoc(<<"B.md", "::", "1">>, "B | Notes", "B", "/vault/B.md", "Notes", 2) }

\* a hit whose metadata names no file_path (the earlier iteration allows for it)
OrphanDoc ==
    [id |-> <<"orphan">>, page_content |-> "orphan",
     metadata |-> [title |-> "orphan", heading |-> "Intro", tags |-> ""]]

\* the sequences of at most n distinct elements of S
RECURSIVE DistinctSeqs(_, _)
DistinctSeqs(S, n) ==
    IF n = 0 THEN {<<>>}
    ELSE LET shorter == DistinctSeqs(S, n - 1)
             longest == {q \in shorter : Len(q) = n - 1}
         IN  shorter \cup
             {Append(pr[1], pr[2]) :
                 pr \in {pr \in longest \X S :
                            \A i \in 1..Len(pr[1]) : pr[1][i] # pr[2]}}

\* the ranked (or, for a scan, unranked) hit lists the store may answer with
HitLists(S) == DistinctSeqs(S, MaxHits)

\* langchain Document(page_content, metadata)
Document(page_content, metadata) == [page_content |-> page_content, metadata |-> metadata]

\* vectorstore.similarity_search(query, k, filter): the hits as Documents
similarity_search(hits) ==
    [i \in 1..Len(hits) |-> Document(hits[i].page_content, hits[i].metadata)]

\* collection.get(where, limit, include): the hits as three flat lists
collection_get(hits) ==
    [ids |-> [i \in 1..Len(hits) |-> hits[i].id],
     documents |-> [i \in 1..Len(hits) |-> hits[i].page_content],
     metadatas |-> [i \in 1..Len(hits) |-> hits[i].metadata]]

\* collection.query(query_texts, where, n_results, include): one list per query text
collection_query(hits) ==
    [ids |-> << [i \in 1..Len(hits) |-> hits[i].id] >>,
     documents |-> << [i \in 1..Len(hits) |-> hits[i].page_content] >>,
     metadatas |-> << [i \in 1..Len(hits) |-> hits[i].metadata] >>]

----------------------------------------------------------------------------
(* VectorStoreManager: src/src/core/ingestion/vector_manager.py *)

\* how a call ends: it returns a value, or an exception leaves it
Returned(value) == [raised |-> FALSE, value |-> value]
Raised == [raised |-> TRUE, value |-> <<>>]

\* a mutant of search_documents: no try/except around the store call
search_documents_noExcept(failed, hits) ==
    IF failed THEN Raised ELSE Returned(similarity_search(hits))

\* search_documents: the store's Documents, [] when the store call raised
search_documents(failed, hits) ==
    IF failed THEN Returned(<<>>) ELSE Returned(similarity_search(hits))

RECURSIVE GetDocumentsLoop(_, _, _)
GetDocumentsLoop(results, i, documents) ==
    IF i > Len(Get(results, "ids", <<>>)) THEN documents
    ELSE IF i <= Len(Get(results, "documents", <<>>))
            /\ i <= Len(Get(results, "metadatas", <<>>))
    THEN GetDocumentsLoop(results, i + 1,
                          Append(documents,
                                 Document(results.documents[i], results.metadatas[i])))
    ELSE GetDocumentsLoop(results, i + 1, documents)

\* get_documents_by_metadata: one Document per returned id, [] when the store call
\* raised
get_documents_by_metadata(failed, hits) ==
    IF failed THEN Returned(<<>>)
    ELSE Returned(GetDocumentsLoop(collection_get(hits), 1, <<>>))

----------------------------------------------------------------------------
(* retrieve_context: src/src/core/retriever.py *)

\* k of the semantic search and limit of the metadata get
SemanticCap == 20
MetadataCap == 100

\* {f["field"]: {f["operator"]: f["value"]}}
FilterCondition(f) == (f.field :> (f.operator :> f.value))

\* a mutant of build_where_filter: only the first filter is translated
build_where_filter_firstOnly(filters) ==
    IF filters = <<>> THEN <<>> ELSE FilterCondition(filters[1])

build_where_filter(filters) ==
    IF filters = <<>> THEN <<>>
    ELSE IF Len(filters) = 1 THEN FilterCondition(filters[1])
    ELSE ("$and" :> [i \in 1..Len(filters) |-> FilterCondition(filters[i])])

\* "where_filter = where_filter if where_filter else None"
WhereFilter(plan) ==
    LET where_filter == build_where_filter(Get(plan, "filters", <<>>))
    IN  IF where_filter # <<>> THEN where_filter ELSE NoneObj

\* "Convert LangChain documents to our internal format"
Section(docs, doc_idx) ==
    [id |-> Get(docs[doc_idx].metadata, "id", ToStr(doc_idx - 1)),
     document |-> docs[doc_idx].page_content,
     metadata |-> docs[doc_idx].metadata]

\* the processed_sections of the semantic branch
SemanticSections(docs) == [doc_idx \in 1..Len(docs) |-> Section(docs, doc_idx)]

\* a mutant of MetadataSections: only the first section of each file_path is kept
MetadataSections_deduplicated(docs) ==
    LET firsts == {i \in 1..Len(docs) :
                      \A j \in 1..(i - 1) :
                          docs[j].metadata.file_path # docs[i].metadata.file_path}
        kth(k) == CHOOSE i \in firsts : Cardinality({j \in firsts : j < i}) = k - 1
    IN  [k \in 1..Cardinality(firsts) |-> Section(docs, kth(k))]

\* the processed_sections of the metadata branch
MetadataSections(docs) == [doc_idx \in 1..Len(docs) |-> Section(docs, doc_idx)]

\* a mutant of package_metadata_only: the section text is packaged as well
package_metadata_only_withContent(secs) ==
    [results |->
        [i \in 1..Len(secs) |->
            [id |-> Get(secs[i], "id", None),
             title |-> Get(Get(secs[i], "metadata", <<>>), "title", None),
             heading |-> Get(Get(secs[i], "metadata", <<>>), "heading", None),
             tags |-> Get(Get(secs[i], "metadata", <<>>), "tags", <<>>),
             content |-> Get(secs[i], "document", None)]]]

package_metadata_only(secs) ==
    [results |->
        [i \in 1..Len(secs) |->
            [id |-> Get(secs[i], "id", None),
             title |-> Get(Get(secs[i], "metadata", <<>>), "title", None),
             heading |-> Get(Get(secs[i], "metadata", <<>>), "heading", None),
             tags |-> Get(Get(secs[i], "metadata", <<>>), "tags", <<>>)]]]

\* a mutant of package_selective_context: nothing to package gives no package
package_selective_context_noneWhenEmpty(secs) ==
    IF secs = <<>> THEN NoneObj
    ELSE [results |->
             [i \in 1..Len(secs) |->
                 [id |-> Get(secs[i], "id", None),
                  title |-> Get(Get(secs[i], "metadata", <<>>), "title", None),
                  content |-> Get(secs[i], "document", None),
                  metadata |-> Get(secs[i], "metadata", NoneObj)]]]

package_selective_context(secs) ==
    [results |->
        [i \in 1..Len(secs) |->
            [id |-> Get(secs[i], "id", None),
             title |-> Get(Get(secs[i], "metadata", <<>>), "title", None),
             content |-> Get(secs[i], "document", None),
             metadata |-> Get(secs[i], "metadata", NoneObj)]]]

\* the filters a plan may carry
TagFilter == [field |-> "tags", operator |-> "contains", value |-> "t1"]
LevelFilter == [field |-> "level", operator |-> "eq", value |-> 2]
OtherTagFilter == [field |-> "tags", operator |-> "contains", value |-> "t2"]
FilterLists ==
    { <<>>,
      <<TagFilter>>,
      <<OtherTagFilter>>,
      <<TagFilter, LevelFilter>>,
      <<OtherTagFilter, LevelFilter>>,
      <<TagFilter, LevelFilter, OtherTagFilter>>,
      <<TagFilter, LevelFilter, TagFilter>> }

\* the query plans retrieve_context is called with
QueryPlans ==
    LET base == {[semantic_search_needed |-> b,
                  semantic_query |-> IF b THEN "notes about x" ELSE "",
                  filters |-> fl] : b \in BOOLEAN, fl \in FilterLists}
    IN  base \cup
        {[semantic_search_needed |-> pl.semantic_search_needed,
          semantic_query |-> pl.semantic_query,
          filters |-> pl.filters,
          response_format |-> rf] :
            pl \in base, rf \in {"metadata_only", "selective_context"}}

RetrieveStart ==
    /\ query_plan \in QueryPlans
    /\ store_calls = <<>>
    /\ store_results = NoneObj
    /\ processed_sections = <<>>
    /\ result = NoneObj
    /\ rpc = "planned"

\* vector_manager.search_documents(query=semantic_query, k=20, filter_dict=where_filter)
SearchCall(plan) ==
    [op |-> "search_documents",
     query |-> plan.semantic_query,
     k |-> SemanticCap,
     filter_dict |-> WhereFilter(plan)]

\* a mutant of GetCall: the scan is capped like the semantic search
GetCall_semanticCap(plan) ==
    [op |-> "get_documents_by_metadata",
     limit |-> SemanticCap,
     filter_dict |-> WhereFilter(plan)]

\* vector_manager.get_documents_by_metadata(filter_dict=where_filter, limit=100)
GetCall(plan) ==
    [op |-> "get_documents_by_metadata",
     limit |-> MetadataCap,
     filter_dict |-> WhereFilter(plan)]

\* the semantic branch: vector_manager.search_documents and the conversion; an
\* exception that left the call would leave retrieve_context too
SemanticSearch ==
    /\ rpc = "planned"
    /\ Get(query_plan, "semantic_search_needed", FALSE)
    /\ \E failed \in BOOLEAN, hits \in HitLists(StoredDocs) :
           /\ failed => hits = <<>>
           /\ store_results' = [failed |-> failed, hits |-> hits]
           /\ LET docs == search_documents(failed, hits)
              IN  IF docs.raised
                  THEN processed_sections' = processed_sections /\ rpc' = "raised"
                  ELSE /\ processed_sections' = SemanticSections(docs.value)
                       /\ rpc' = "retrieved"
    /\ store_calls' = Append(store_calls, SearchCall(query_plan))
    /\ UNCHANGED <<query_plan, result>>
    /\ UNCHANGED <<parseVars, planVars, matchVars, ingestVars>>

\* the metadata branch: vector_manager.get_documents_by_metadata and the conversion
\* (an exception is handled as in the semantic branch)
MetadataGet ==
    /\ rpc = "planned"
    /\ ~Get(query_plan, "semantic_search_needed", FALSE)
    /\ \E failed \in BOOLEAN, hits \in HitLists(StoredDocs) :
           /\ failed => hits = <<>>
           /\ store_results' = [failed |-> failed, hits |-> hits]
           /\ LET docs == get_documents_by_metadata(failed, hits)
              IN  IF docs.raised
                  THEN processed_sections' = processed_sections /\ rpc' = "raised"
                  ELSE /\ processed_sections' = MetadataSections(docs.value)
                       /\ rpc' = "retrieved"
    /\ store_calls' = Append(store_calls, GetCall(query_plan))
    /\ UNCHANGED <<query_plan, result>>
    /\ UNCHANGED <<parseVars, planVars, matchVars, ingestVars>>

\* response_format = query_plan.get("response_format", "metadata_only")
ResponseFormat(plan) == Get(plan, "response_format", "metadata_only")

PackageSelectiveContext ==
    /\ rpc = "retrieved"
    /\ ResponseFormat(query_plan) = "selective_context"
    /\ result' = package_selective_context(processed_sections)
    /\ rpc' = "packaged"
    /\ UNCHANGED <<query_plan, store_calls, store_results, processed_sections>>
    /\ UNCHANGED <<parseVars, planVars, matchVars, ingestVars>>

PackageMetadataOnly ==
    /\ rpc = "retrieved"
    /\ ResponseFormat(query_plan) # "selective_context"
    /\ result' = package_metadata_only(processed_sections)
    /\ rpc' = "packaged"
    /\ UNCHANGED <<query_plan, store_calls, store_results, processed_sections>>
    /\ UNCHANGED <<parseVars, planVars, matchVars, ingestVars>>

RetrieveNext ==
    SemanticSearch \/ MetadataGet \/ PackageSelectiveContext \/ PackageMetadataOnly

----------------------------------------------------------------------------
(* retrieve_context of the earlier iteration: src/retriever.py *)

\* a mutant of DedupSkip: a later hit of a known file_path is not skipped
DedupSkip_noDuplicateCheck(file_path, final_results) == Falsy(file_path)

\* "if not file_path or file_path in final_results: continue"
DedupSkip(file_path, final_results) ==
    Falsy(file_path) \/ InDict(file_path, final_results)

RECURSIVE DedupLoop(_, _, _, _, _)
DedupLoop(ids, metadatas, documents, i, final_results) ==
    IF i > Len(ids) THEN final_results
    ELSE LET metadata == IF i <= Len(metadatas) THEN metadatas[i] ELSE <<>>
             file_path == Get(metadata, "file_path", None)
         IN  IF DedupSkip(file_path, final_results)
             THEN DedupLoop(ids, metadatas, documents, i + 1, final_results)
             ELSE DedupLoop(ids, metadatas, documents, i + 1,
                            DictSet(final_results, file_path,
                                    [id |-> ids[i],
                                     metadata |-> metadata,
                                     document |-> IF i <= Len(documents)
                                                  THEN documents[i] ELSE ""]))

deduplicate_query_results(results) ==
    IF Get(results, "ids", <<>>) = <<>> \/ results.ids[1] = <<>> THEN <<>>
    ELSE DictValues(
             DedupLoop(results.ids[1],
                       IF Get(results, "metadatas", <<>>) # <<>>
                       THEN results.metadatas[1] ELSE <<>>,
                       IF Get(results, "documents", <<>>) # <<>>
                       THEN results.documents[1] ELSE <<>>,
                       1, <<>>))

normalize_get_results(results) ==
    LET ids == Get(results, "ids", <<>>)
        documents == Get(results, "documents", <<>>)
        metadatas == Get(results, "metadatas", <<>>)
    IN  [i \in 1..Len(ids) |->
            [id |-> ids[i],
             document |-> IF i <= Len(documents) THEN documents[i] ELSE None,
             metadata |-> IF i <= Len(metadatas) THEN metadatas[i] ELSE <<>>]]

\* the semantic branch: collection.query, then _deduplicate_query_results
LegacyQuery ==
    /\ rpc = "planned"
    /\ Get(query_plan, "semantic_search_needed", FALSE)
    /\ \E hits \in HitLists(StoredDocs \cup {OrphanDoc}) :
           /\ store_results' = [failed |-> FALSE, hits |-> hits]
           /\ processed_sections' = deduplicate_query_results(collection_query(hits))
    /\ store_calls' = Append(store_calls,
                             [op |-> "query",
                              query_texts |-> <<query_plan.semantic_query>>,
                              n_results |-> SemanticCap,
                              where |-> build_where_filter(Get(query_plan, "filters", <<>>))])
    /\ rpc' = "retrieved"
    /\ UNCHANGED <<query_plan, result>>
    /\ UNCHANGED <<parseVars, planVars, matchVars, ingestVars>>

\* the metadata branch: collection.get, then _normalize_get_results
LegacyGet ==
    /\ rpc = "planned"
    /\ ~Get(query_plan, "semantic_search_needed", FALSE)
    /\ \E hits \in HitLists(StoredDocs \cup {OrphanDoc}) :
           /\ store_results' = [failed |-> FALSE, hits |-> hits]
           /\ processed_sections' = normalize_get_results(collection_get(hits))
    /\ store_calls' = Append(store_calls,
                             [op |-> "get",
                              limit |-> MetadataCap,
                              where |-> build_where_filter(Get(query_plan, "filters", <<>>))])
    /\ rpc' = "retrieved"
    /\ UNCHANGED <<query_plan, result>>
    /\ UNCHANGED <<parseVars, planVars, matchVars, ingestVars>>

LegacyRetrieveNext ==
    LegacyQuery \/ LegacyGet \/ PackageSelectiveContext \/ PackageMetadataOnly

----------------------------------------------------------------------------
(* The completion service: an external collaborator *)

\* The raw text of a completion is a sequence of pieces.  "{", "}", "filters: ["
\* and "]" are JSON punctuation, the pieces of JsonMember are whole object members
\* (the comma between two members is left out), anything else is prose.
JsonMember ==
    ("semantic_search_needed: true" :> [key |-> "semantic_search_needed", value |-> TRUE]) @@
    ("semantic_search_needed: false" :> [key |-> "semantic_search_needed", value |-> FALSE]) @@
    ("semantic_query: notes" :> [key |-> "semantic_query", value |-> <<"notes">>]) @@
    ("semantic_query: ''" :> [key |-> "semantic_query", value |-> <<>>]) @@
    ("filters: []" :> [key |-> "filters", value |-> <<>>]) @@
    ("response_format: selective_context" :>
        [key |-> "response_format", value |-> "selective_context"]) @@
    ("response_format: metadata_only" :>
        [key |-> "response_format", value |-> "metadata_only"]) @@
    ("field: tags" :> [key |-> "field", value |-> "tags"]) @@
    ("operator: contains" :> [key |-> "operator", value |-> "contains"]) @@
    ("value: t1" :> [key |-> "value", value |-> "t1"])

Prose == "Here is the plan:"

FlatPlanText ==
    <<"{", "semantic_search_needed: true", "semantic_query: notes", "filters: []",
      "response_format: metadata_only", "}">>

NestedPlanText ==
    <<"{", "semantic_search_needed: false", "semantic_query: ''",
      "filters: [", "{", "field: tags", "operator: contains", "value: t1", "}", "]",
      "response_format: metadata_only", "}">>

\* a plan that asks for a semantic search and gives no text to search for
EmptyQueryPlanText ==
    <<"{", "semantic_search_needed: true", "semantic_query: ''", "filters: []",
      "response_format: selective_context", "}">>

\* the raw texts the completion service may answer with
CompletionTexts ==
    { FlatPlanText,                          \* a plan
      EmptyQueryPlanText,                    \* a plan without its semantic text
      NestedPlanText,                        \* a plan with one filter
      <<"{", "}">>,                          \* JSON, but no plan
      <<Prose, NL>> \o FlatPlanText,         \* a plan after a line of prose
      <<Prose, NL>> \o NestedPlanText,       \* a plan with one filter after prose
      <<Prose, " ", "{", "semantic_search_needed: true", "}", NL>>,
                                             \* an object without the required keys
      <<" ", Prose, NL>>,                    \* prose only
      <<"{", "semantic_search_needed: true">> }  \* truncated JSON

\* what one completion request comes to: the create() call raises (service error,
\* timeout: "error"), or it returns a message whose content is None ("none") or a
\* text ("content")
Completions ==
    {[kind |-> "error"], [kind |-> "none"]}
        \cup {[kind |-> "content", content |-> t] : t \in CompletionTexts}

----------------------------------------------------------------------------
(* json.loads and re on the pieces of a text *)

\* d[key] = value of a dict held as a function
DictPut(d, key, value) ==
    [k \in DOMAIN d \cup {key} |-> IF k = key THEN value ELSE d[k]]

JsonFail == [ok |-> FALSE, value |-> <<>>, i |-> 0]

RECURSIVE JsonMembers(_, _, _)
RECURSIVE JsonObjects(_, _, _)

\* the members of an object from piece i on, up to its closing brace
JsonMembers(toks, i, acc) ==
    IF i > Len(toks) THEN JsonFail
    ELSE IF toks[i] = "}" THEN [ok |-> TRUE, value |-> acc, i |-> i + 1]
    ELSE IF toks[i] \in DOMAIN JsonMember
    THEN JsonMembers(toks, i + 1,
                     DictPut(acc, JsonMember[toks[i]].key, JsonMember[toks[i]].value))
    ELSE IF toks[i] = "filters: ["
    THEN LET list == JsonObjects(toks, i + 1, <<>>)
         IN  IF list.ok
             THEN JsonMembers(toks, list.i, DictPut(acc, "filters", list.value))
             ELSE JsonFail
    ELSE JsonFail

\* the objects of a list from piece i on, up to its closing bracket
JsonObjects(toks, i, acc) ==
    IF i > Len(toks) THEN JsonFail
    ELSE IF toks[i] = "]" THEN [ok |-> TRUE, value |-> acc, i |-> i + 1]
    ELSE IF toks[i] = "{"
    THEN LET obj == JsonMembers(toks, i + 1, <<>>)
         IN  IF obj.ok THEN JsonObjects(toks, obj.i, Append(acc, obj.value)) ELSE JsonFail
    ELSE JsonFail

\* json.loads(s) of a text: ok = FALSE stands for JSONDecodeError
json_loads(s) ==
    LET toks == Strip(s)
        obj == IF toks # <<>> /\ toks[1] = "{" THEN JsonMembers(toks, 2, <<>>) ELSE JsonFail
    IN  IF obj.ok /\ obj.i = Len(toks) + 1
        THEN [ok |-> TRUE, value |-> obj.value]
        ELSE [ok |-> FALSE, value |-> <<>>]

\* the matches of \{[^{}]*\} in a text: <<first, last>> piece of each brace-free
\* object, from left to right
BraceFreeSpans(toks) ==
    {sp \in (1..Len(toks)) \X (1..Len(toks)) :
        /\ sp[1] < sp[2]
        /\ toks[sp[1]] = "{"
        /\ toks[sp[2]] = "}"
        /\ \A j \in (sp[1] + 1)..(sp[2] - 1) : toks[j] \notin {"{", "}"}}

\* the piece holds the text "key" (with its quotes)
HoldsKey(tok, key) == tok \in DOMAIN JsonMember /\ JsonMember[tok].key = key

\* re.search(r'\{[^{}]*"key"[^{}]*\}', text): the leftmost match, <<>> without one
search_object_with(toks, key) ==
    LET found == {sp \in BraceFreeSpans(toks) :
                     \E j \in (sp[1] + 1)..(sp[2] - 1) : HoldsKey(toks[j], key)}
    IN  IF found = {} THEN <<>>
        ELSE LET sp == CHOOSE sp \in found : \A other \in found : sp[1] <= other[1]
             IN  SubSeq(toks, sp[1], sp[2])

\* re.findall(r"\{[^{}]*\}", text), in order
findall_objects(toks) ==
    LET spans == BraceFreeSpans(toks)
        kth(k) == CHOOSE sp \in spans : Cardinality({o \in spans : o[1] < sp[1]}) = k - 1
    IN  [k \in 1..Cardinality(spans) |-> SubSeq(toks, kth(k)[1], kth(k)[2])]

----------------------------------------------------------------------------
(* deconstruct_query: src/src/core/query_planner.py *)

\* the default of the parameter max_retries
DefaultMaxRetries == 3

RequiredKeys == {"semantic_search_needed", "filters", "response_format"}

\* the enum of "field" and of "operator" in SCHEMA_OBJECT
FilterFields ==
    {"created_date", "modified_date", "tags", "wikilinks", "file_path", "heading",
     "title", "level"}

FilterOperators == {"gt", "gte", "lt", "lte", "eq", "ne", "match", "contains", "like"}

\* the enum of "response_format" in SCHEMA_OBJECT
ResponseFormats == {"metadata_only", "selective_context"}

\* "if all(key in parsed ...)": parsed with semantic_query filled in; the empty
\* dict when a required key is missing
WithRequiredKeys(parsed) ==
    IF RequiredKeys \subseteq DOMAIN parsed
    THEN IF "semantic_query" \in DOMAIN parsed
         THEN parsed
         ELSE DictPut(parsed, "semantic_query", <<>>)
    ELSE <<>>

\* the loop "for json_str in matches": the first candidate with the required keys
RECURSIVE FirstCandidate(_, _)
FirstCandidate(matches, k) ==
    IF k > Len(matches) THEN <<>>
    ELSE LET parsed == json_loads(matches[k])
         IN  IF parsed.ok /\ WithRequiredKeys(parsed.value) # <<>>
             THEN WithRequiredKeys(parsed.value)
             ELSE FirstCandidate(matches, k + 1)

\* what _manual_json_parse extracts from the text before it falls back: the empty
\* dict when no pattern gives an object with the required keys
ManualExtract(content) ==
    LET toks == Strip(content)
        first == search_object_with(toks, "semantic_search_needed")
        match == IF first # <<>> THEN first
                 ELSE search_object_with(toks, "semantic_query")
    IN  IF match = <<>>
        THEN FirstCandidate(findall_objects(toks), 1)
        ELSE LET parsed == json_loads(match)
             IN  IF parsed.ok THEN WithRequiredKeys(parsed.value) ELSE <<>>

\* the "default fallback plan" of _manual_json_parse
ManualFallbackPlan(content) ==
    [semantic_search_needed |-> TRUE,
     semantic_query |-> Strip(content),
     filters |-> <<>>,
     response_format |-> "selective_context"]

manual_json_parse(content) ==
    IF ManualExtract(content) # <<>>
    THEN ManualExtract(content)
    ELSE ManualFallbackPlan(content)

\* the user queries: empty, whitespace only, and a question
UserQueries == {<<>>, <<" ", NL>>, <<"w", "h", "o", "?">>}

PlanStart ==
    /\ user_query \in UserQueries
    /\ max_retries \in 1..MaxRetriesBound
    /\ attempt = 0
    /\ completions = <<>>
    /\ sleeps = <<>>
    /\ plan_result = NoneObj
    /\ qpc = "start"

\* "if not user_query.strip(): return"
EmptyQueryReturn ==
    /\ qpc = "start"
    /\ Strip(user_query) = <<>>
    /\ plan_result' = NoneObj
    /\ qpc' = "returned"
    /\ UNCHANGED <<user_query, max_retries, attempt, completions, sleeps>>
    /\ UNCHANGED <<parseVars, retrVars, matchVars, ingestVars>>

\* a mutant of EnterLoop: the loop is entered whatever the query
EnterLoop_unguarded ==
    /\ qpc = "start"
    /\ qpc' = "request"
    /\ UNCHANGED <<user_query, max_retries, attempt, completions, sleeps, plan_result>>
    /\ UNCHANGED <<parseVars, retrVars, matchVars, ingestVars>>

\* the loop is entered
EnterLoop ==
    /\ qpc = "start"
    /\ Strip(user_query) # <<>>
    /\ qpc' = "request"
    /\ UNCHANGED <<user_query, max_retries, attempt, completions, sleeps, plan_result>>
    /\ UNCHANGED <<parseVars, retrVars, matchVars, ingestVars>>

\* the end of one iteration that returned nothing: sleep, or leave the loop
AfterFailedAttempt ==
    IF attempt < max_retries - 1
    THEN qpc' = "backoff"
    ELSE qpc' = "exhausted"

\* an attempt whose completion is valid JSON: "return plan"
AttemptReturnsJson ==
    /\ qpc = "request"
    /\ \E c \in Completions :
           /\ c.kind = "content"
           /\ json_loads(c.content).ok
           /\ completions' = Append(completions, c)
           /\ plan_result' = json_loads(c.content).value
    /\ qpc' = "returned"
    /\ UNCHANGED <<user_query, max_retries, attempt, sleeps>>
    /\ UNCHANGED <<parseVars, retrVars, matchVars, ingestVars>>

\* an attempt whose completion is a text json.loads rejects: "except
\* json.JSONDecodeError", _manual_json_parse and "if plan: return plan"
AttemptJsonDecodeError ==
    /\ qpc = "request"
    /\ \E c \in Completions :
           /\ c.kind = "content"
           /\ ~json_loads(c.content).ok
           /\ completions' = Append(completions, c)
           /\ LET plan == manual_json_parse(c.content)
              IN  IF DOMAIN plan # {}
                  THEN plan_result' = plan /\ qpc' = "returned"
                  ELSE plan_result' = plan_result /\ AfterFailedAttempt
    /\ UNCHANGED <<user_query, max_retries, attempt, sleeps>>
    /\ UNCHANGED <<parseVars, retrVars, matchVars, ingestVars>>

\* an attempt that raises anything else: the create() call fails, or the content
\* is None and json.loads raises TypeError: "except Exception"
AttemptRaises ==
    /\ qpc = "request"
    /\ \E c \in Completions :
           /\ c.kind \in {"error", "none"}
           /\ completions' = Append(completions, c)
    /\ AfterFailedAttempt
    /\ UNCHANGED <<user_query, max_retries, attempt, sleeps, plan_result>>
    /\ UNCHANGED <<parseVars, retrVars, matchVars, ingestVars>>

\* a mutant of Pow2: the wait grows linearly, attempt + 2 seconds
Pow2_linear(n) == n + 1

RECURSIVE Pow2(_)
Pow2(n) == IF n = 0 THEN 1 ELSE 2 * Pow2(n - 1)

\* "wait_time = 2 ** (attempt + 1); time.sleep(wait_time)" and the next iteration
Backoff ==
    /\ qpc = "backoff"
    /\ sleeps' = Append(sleeps, Pow2(attempt + 1))
    /\ attempt' = attempt + 1
    /\ qpc' = "request"
    /\ UNCHANGED <<user_query, max_retries, completions, plan_result>>
    /\ UNCHANGED <<parseVars, retrVars, matchVars, ingestVars>>

\* "raise RuntimeError(...)" after the loop
RaiseRuntimeError ==
    /\ qpc = "exhausted"
    /\ qpc' = "raised"
    /\ UNCHANGED <<user_query, max_retries, attempt, completions, sleeps, plan_result>>
    /\ UNCHANGED <<parseVars, retrVars, matchVars, ingestVars>>

PlanNext ==
    \/ EmptyQueryReturn
    \/ EnterLoop
    \/ AttemptReturnsJson
    \/ AttemptJsonDecodeError
    \/ AttemptRaises
    \/ Backoff
    \/ RaiseRuntimeError

----------------------------------------------------------------------------
(* Storing a section and looking it up by a filter:
   src/src/core/ingestion/processor.py, src/src/core/retriever.py *)

\* a Python str and a Python list of str, told apart
PyStr(chars) == [str |-> chars]
PyList(items) == [list |-> items]

\* sep.join(ls)
RECURSIVE JoinWith(_, _)
JoinWith(sep, ls) ==
    IF ls = <<>> THEN <<>>
    ELSE IF Len(ls) = 1 THEN ls[1]
    ELSE ls[1] \o <<sep>> \o JoinWith(sep, Tail(ls))

\* '",".join(ls) if ls else ""'
JoinedOrEmpty(ls) == PyStr(IF ls # <<>> THEN JoinWith(",", ls) ELSE <<>>)

\* int(s) of a string of digits
RECURSIVE ToNat(_)
ToNat(s) ==
    IF s = <<>> THEN 0
    ELSE 10 * ToNat(SubSeq(s, 1, Len(s) - 1))
         + (CHOOSE k \in 1..Len(Digits) : Digits[k] = s[Len(s)]) - 1

\* n in decimal, padded with zeros to the width w
RECURSIVE Padded(_, _)
Padded(n, w) == IF Len(ToStr(n)) >= w THEN ToStr(n) ELSE <<"0">> \o Padded(n, w - 1)

\* parse_datetime(text): the datetime of the first two lines, or None.
\* date_pattern = ^\d{1,2}-\d{1,2}-\d{4}$ and time_pattern = ^\d{1,2}:\d{2} (AM|PM)$
\* match under the lengths DateSplits and TimeSplits of the month, the day and
\* the hour; datetime.strptime(..., "%m-%d-%Y %I:%M %p") raises the ValueError
\* the function catches when a field is out of its range
parse_datetime(t) ==
    LET ls == Split(Strip(t))
        date_str == Strip(ls[1])
        time_str == Strip(ls[2])
        AllDigits(s) == \A i \in 1..Len(s) : \E k \in 1..Len(Digits) : Digits[k] = s[i]
        DateSplits ==
            {md \in (1..2) \X (1..2) :
                /\ Len(date_str) = md[1] + md[2] + 6
                /\ AllDigits(SubSeq(date_str, 1, md[1]))
                /\ date_str[md[1] + 1] = "-"
                /\ AllDigits(SubSeq(date_str, md[1] + 2, md[1] + md[2] + 1))
                /\ date_str[md[1] + md[2] + 2] = "-"
                /\ AllDigits(SubSeq(date_str, md[1] + md[2] + 3, Len(date_str)))}
        TimeSplits ==
            {h \in 1..2 :
                /\ Len(time_str) = h + 6
                /\ AllDigits(SubSeq(time_str, 1, h))
                /\ time_str[h + 1] = ":"
                /\ AllDigits(SubSeq(time_str, h + 2, h + 3))
                /\ time_str[h + 4] = " "
                /\ SubSeq(time_str, h + 5, h + 6) \in {<<"A", "M">>, <<"P", "M">>}}
        md == CHOOSE md \in DateSplits : TRUE
        h == CHOOSE h \in TimeSplits : TRUE
        month == ToNat(SubSeq(date_str, 1, md[1]))
        day == ToNat(SubSeq(date_str, md[1] + 2, md[1] + md[2] + 1))
        year == ToNat(SubSeq(date_str, md[1] + md[2] + 3, Len(date_str)))
        hour12 == ToNat(SubSeq(time_str, 1, h))
        minute == ToNat(SubSeq(time_str, h + 2, h + 3))
        pm == time_str[h + 5] = "P"
        days_in_month ==
            IF month = 2
            THEN IF (year % 4 = 0 /\ year % 100 # 0) \/ year % 400 = 0 THEN 29 ELSE 28
            ELSE IF month \in {4, 6, 9, 11} THEN 30 ELSE 31
    IN  IF Len(ls) < 2 THEN NoneObj
        ELSE IF DateSplits = {} \/ TimeSplits = {} THEN NoneObj
        ELSE IF /\ month \in 1..12
                /\ year >= 1
                /\ day \in 1..days_in_month
                /\ hour12 \in 1..12
                /\ minute \in 0..59
        THEN [year |-> year, month |-> month, day |-> day,
              hour |-> (hour12 % 12) + (IF pm THEN 12 ELSE 0),
              minute |-> minute, second |-> 0]
        ELSE NoneObj

\* datetime.fromtimestamp(t) for a time t of the first day of the epoch, the
\* local time zone being UTC
fromtimestamp(t) ==
    [year |-> 1970, month |-> 1, day |-> 1,
     hour |-> t \div 3600, minute |-> (t % 3600) \div 60, second |-> t % 60]

\* datetime.isoformat(): YYYY-MM-DDTHH:MM:SS, a str
isoformat(dt) ==
    PyStr(Padded(dt.year, 4) \o <<"-">> \o Padded(dt.month, 2) \o <<"-">>
          \o Padded(dt.day, 2) \o <<"T">> \o Padded(dt.hour, 2) \o <<":">>
          \o Padded(dt.minute, 2) \o <<":">> \o Padded(dt.second, 2))

\* NoteProcessor._create_metadata(note, heading, level)
create_metadata(note, heading, level) ==
    [title |-> note.title,
     file_path |-> note.file_path,
     heading |-> heading,
     level |-> level,
     tags |-> JoinedOrEmpty(note.tag_wikilinks),
     wikilinks |-> JoinedOrEmpty(note.wikilinks),
     created_date |-> isoformat(note.created_date),
     modified_date |-> isoformat(note.modified_date)]

\* the vector store, an external collaborator: scanByFilter(predicate, limit).
\* The keywords a stored field holds: the items of a list, a string as one keyword
StoredKeywords(field_value) ==
    IF "list" \in DOMAIN field_value
    THEN {field_value.list[i] : i \in 1..Len(field_value.list)}
    ELSE {field_value.str}

\* the values a condition supplies: the items of a list, a scalar as one value
SuppliedValues(value) ==
    IF "list" \in DOMAIN value
    THEN {value.list[i] : i \in 1..Len(value.list)}
    ELSE {value.str}

\* a occurs in b as a substring
IsSubstring(a, b) == \E i \in 0..(Len(b) - Len(a)) : SubSeq(b, i + 1, i + Len(a)) = a

\* one condition {field: {operator: value}} against a stored payload.  A store
\* compares keywords for equality ("keyword", a keyword index) or looks for the
\* value inside the stored text ("substring")
ConditionMatches(stored, cond, matching) ==
    LET field == CHOOSE f \in DOMAIN cond : TRUE
        operator == CHOOSE o \in DOMAIN cond[field] : TRUE
        value == cond[field][operator]
    IN  /\ field \in DOMAIN stored
        /\ operator \in {"contains", "in"}
        /\ IF matching = "keyword"
           THEN StoredKeywords(stored[field]) \cap SuppliedValues(value) # {}
           ELSE \E v \in SuppliedValues(value), k \in StoredKeywords(stored[field]) :
                    IsSubstring(v, k)

\* the stored section matches the predicate
StoreMatches(stored, where, matching) ==
    IF where = <<>> THEN TRUE
    ELSE IF "$and" \in DOMAIN where
    THEN \A i \in 1..Len(where["$and"]) :
             ConditionMatches(stored, where["$and"][i], matching)
    ELSE ConditionMatches(stored, where, matching)

\* the tags and link targets of the notes: "t" is a part of "t1"
TagPool == {<<"t">>, <<"t", "1">>, <<"x">>}

\* the value of a filter: one tag, or a list of tags
FilterValues ==
    {PyStr(t) : t \in TagPool}
        \cup {PyList(l) : l \in DistinctSeqs(TagPool, MaxTags) \ {<<>>}}

ListFields == {"tags", "wikilinks"}

\* the note a section is stored for
TheNote ==
    [title |-> "A",
     file_path |-> "/vault/A.md",
     tag_wikilinks |-> note_tags,
     wikilinks |-> note_wikilinks,
     created_date |-> fromtimestamp(5),
     modified_date |-> fromtimestamp(42)]

MatchStart ==
    /\ note_tags \in DistinctSeqs(TagPool, MaxTags)
    /\ note_wikilinks \in DistinctSeqs(TagPool, MaxTags)
    /\ scan_filter \in [field : ListFields, operator : {"contains"}, value : FilterValues]
    /\ store_matching \in {"keyword", "substring"}
    /\ payload = NoneObj
    /\ matched = FALSE
    /\ mpc = "start"

\* the section is stored with the metadata _create_metadata builds
StoreSection ==
    /\ mpc = "start"
    /\ payload' = create_metadata(TheNote, "Intro", 1)
    /\ mpc' = "stored"
    /\ UNCHANGED <<note_tags, note_wikilinks, scan_filter, store_matching, matched>>
    /\ UNCHANGED <<parseVars, retrVars, planVars, ingestVars>>

\* the filter is translated and the store scans with the predicate
ScanByFilter ==
    /\ mpc = "stored"
    /\ matched' = StoreMatches(payload, build_where_filter(<<scan_filter>>),
                               store_matching)
    /\ mpc' = "scanned"
    /\ UNCHANGED <<note_tags, note_wikilinks, payload, scan_filter, store_matching>>
    /\ UNCHANGED <<parseVars, retrVars, planVars, ingestVars>>

MatchNext == StoreSection \/ ScanByFilter

----------------------------------------------------------------------------
(* The metadata micro-parsers: src/src/core/parsing.py *)

\* the characters of a string
Chars(s) == [i \in 1..Len(s) |-> SubSeq(s, i, i)]

\* str.lower()
lower(s) ==
    LET upper == Chars("ABCDEFGHIJKLMNOPQRSTUVWXYZ")
        lowered == Chars("abcdefghijklmnopqrstuvwxyz")
    IN  [i \in 1..Len(s) |->
            IF \E k \in 1..Len(upper) : upper[k] = s[i]
            THEN lowered[CHOOSE k \in 1..Len(upper) : upper[k] = s[i]]
            ELSE s[i]]

\* re.findall(r"\[\[(.*?)\]\]", text) from position pos on: the groups of the
\* matches, leftmost first, none overlapping.  ClosingAt(e) is the first position
\* from e on where "]]" closes a link on the same line ('.' matches no newline),
\* 0 when there is none
RECURSIVE findall_links(_, _)
findall_links(t, pos) ==
    LET ClosingAt(e) ==
            LET closings == {k \in e..(Len(t) - 1) : t[k] = "]" /\ t[k + 1] = "]"}
                nearest == CHOOSE k \in closings : \A k2 \in closings : k <= k2
            IN  IF closings = {} THEN 0
                ELSE IF \E k \in e..(nearest - 1) : t[k] = NL THEN 0
                ELSE nearest
        openings == {s \in pos..(Len(t) - 3) :
                        t[s] = "[" /\ t[s + 1] = "[" /\ ClosingAt(s + 2) # 0}
        first == CHOOSE s \in openings : \A s2 \in openings : s <= s2
    IN  IF openings = {} THEN <<>>
        ELSE <<SubSeq(t, first + 2, ClosingAt(first + 2) - 1)>>
             \o findall_links(t, ClosingAt(first + 2) + 2)

\* a mutant of clean_link: the part after the last '|' (the alias) is taken
clean_link_alias(link) ==
    LET bars == {i \in 1..Len(link) : link[i] = "|"}
    IN  IF bars = {} THEN Strip(link)
        ELSE Strip(SubSeq(link, (CHOOSE i \in bars : \A i2 \in bars : i >= i2) + 1,
                          Len(link)))

\* clean_link = link.split("|")[0].strip()
clean_link(link) ==
    LET bars == {i \in 1..Len(link) : link[i] = "|"}
    IN  IF bars = {} THEN Strip(link)
        ELSE Strip(SubSeq(link, 1, (CHOOSE i \in bars : \A i2 \in bars : i <= i2) - 1))

\* the loop of extract_wikilinks over the matches: a clean_link that ends with
\* ".png" is skipped
RECURSIVE CleanLinks(_)
CleanLinks(matches) ==
    IF matches = <<>> THEN <<>>
    ELSE IF Len(clean_link(Head(matches))) >= 4
            /\ SubSeq(clean_link(Head(matches)), Len(clean_link(Head(matches))) - 3,
                      Len(clean_link(Head(matches)))) = Chars(".png")
    THEN CleanLinks(Tail(matches))
    ELSE <<clean_link(Head(matches))>> \o CleanLinks(Tail(matches))

extract_wikilinks(t) == CleanLinks(findall_links(t, 1))

\* the index of the first line from i on that starts with "tags:", whatever the
\* case; 0 when there is none (StopIteration)
RECURSIVE TagsLineIndex(_, _)
TagsLineIndex(ls, i) ==
    IF i > Len(ls) THEN 0
    ELSE IF Len(ls[i]) >= 5 /\ lower(SubSeq(ls[i], 1, 5)) = Chars("tags:") THEN i
    ELSE TagsLineIndex(ls, i + 1)

parse_tags(t) ==
    LET ls == Split(t)
        tags_line == TagsLineIndex(ls, 1)
    IN  IF tags_line # 0 THEN extract_wikilinks(ls[tags_line]) ELSE <<>>

\* "while body_start < len(lines) and lines[body_start].strip(): body_start += 1"
RECURSIVE SkipNonEmpty(_, _)
SkipNonEmpty(ls, body_start) ==
    IF body_start <= Len(ls) /\ Strip(ls[body_start]) # <<>>
    THEN SkipNonEmpty(ls, body_start + 1)
    ELSE body_start

\* "while body_start < len(lines) and not lines[body_start].strip(): body_start += 1"
RECURSIVE SkipEmpty(_, _)
SkipEmpty(ls, body_start) ==
    IF body_start <= Len(ls) /\ Strip(ls[body_start]) = <<>>
    THEN SkipEmpty(ls, body_start + 1)
    ELSE body_start

\* a mutant of parse_body: the body starts right after the Tags line
parse_body_afterTagsLine(raw_content) ==
    LET ls == Split(raw_content)
        tags_line_index == TagsLineIndex(ls, 1)
    IN  IF tags_line_index = 0 THEN Strip(raw_content)
        ELSE IF tags_line_index + 1 <= Len(ls)
             THEN Strip(Join(SubSeq(ls, tags_line_index + 1, Len(ls))))
             ELSE <<>>

parse_body(raw_content) ==
    LET ls == Split(raw_content)
        tags_line_index == TagsLineIndex(ls, 1)
        body_start == SkipEmpty(ls, SkipNonEmpty(ls, tags_line_index + 1))
    IN  IF tags_line_index = 0 THEN Strip(raw_content)
        ELSE IF body_start <= Len(ls)
             THEN Strip(Join(SubSeq(ls, body_start, Len(ls))))
             ELSE <<>>

\* "for target_level in range(1, 7)" from one level on
RECURSIVE LevelPasses(_, _, _, _)
LevelPasses(ls, level, secs, counter) ==
    IF level > MaxHeadingLevel THEN secs
    ELSE LET pass == LevelPass(ls, level, 1, secs, <<>>, counter)
         IN  LevelPasses(ls, level + 1, pass.sections, pass.counter)

\* parse_headings(text) as one function
parse_headings(t) ==
    LET secs == LevelPasses(Split(t), 1, <<>>, 0)
    IN  IF secs = <<>> THEN <<FallbackSection(t)>> ELSE secs

----------------------------------------------------------------------------
(* Note: src/src/core/note.py; NoteProcessor: src/src/core/ingestion/processor.py *)

\* the part of a path after its last '/': os.path.basename, Path(...).name
basename(path) ==
    LET slashes == {i \in 1..Len(path) : path[i] = "/"}
    IN  IF slashes = {} THEN path
        ELSE SubSeq(path, (CHOOSE i \in slashes : \A i2 \in slashes : i >= i2) + 1,
                    Len(path))

\* Note(file_path, _raw_content): __post_init__ with _extract_file_metadata and
\* _parse_content
Note(file) ==
    LET parsed == parse_datetime(file.raw_content)
        note_body == parse_body(file.raw_content)
        name == basename(file.path)
        dots == {i \in 2..Len(name) : name[i] = "."}
        \* os.path.splitext(name)[0]: the name without its last ".ext"
        root == IF dots = {} THEN name
                ELSE SubSeq(name, 1, (CHOOSE i \in dots : \A i2 \in dots : i >= i2) - 1)
    IN  [file_path |-> file.path,
         title |-> root,
         created_date |-> IF parsed # NoneObj THEN parsed
                          ELSE fromtimestamp(file.st_mtime),
         modified_date |-> fromtimestamp(file.st_mtime),
         tag_wikilinks |-> parse_tags(file.raw_content),
         note_body |-> note_body,
         wikilinks |-> extract_wikilinks(note_body),
         content_sections |-> parse_headings(note_body)]

\* Note.from_file(file_path): FileNotFoundError for a missing file, and the
\* error of open/read raised again
from_file(file) ==
    IF file.status # "ok" THEN Raised ELSE Returned(Note(file))

\* NoteProcessor._generate_document_id(file_path, section_id)
generate_document_id(file_path, section_id) ==
    LET replace(s, old, new) == [i \in 1..Len(s) |-> IF s[i] = old THEN new ELSE s[i]]
        relative_path == basename(file_path)
        safe_name == replace(replace(relative_path, "/", "_"), " ", "_")
    IN  safe_name \o <<":", ":">> \o section_id

\* NoteProcessor._create_document_from_section(note, section)
create_document_from_section(n, section) ==
    [id |-> generate_document_id(n.file_path, section.id),
     \* create_embedding_text: f"{title} | {heading}\n\n{content}".strip()
     content |-> Strip(n.title \o <<" ", "|", " ">> \o section.heading \o <<NL, NL>>
                       \o section.content),
     metadata |-> create_metadata(n, section.heading, section.level)]

\* a mutant of YieldSections: a document for every section
RECURSIVE YieldSections_all(_, _)
YieldSections_all(n, secs) ==
    IF secs = <<>> THEN <<>>
    ELSE <<create_document_from_section(n, Head(secs))>>
         \o YieldSections_all(n, Tail(secs))

\* "for section in note.content_sections: if section.content.strip(): yield ..."
RECURSIVE YieldSections(_, _)
YieldSections(n, secs) ==
    IF secs = <<>> THEN <<>>
    ELSE IF Strip(Head(secs).content) # <<>>
    THEN <<create_document_from_section(n, Head(secs))>> \o YieldSections(n, Tail(secs))
    ELSE YieldSections(n, Tail(secs))

\* list(NoteProcessor.process_note(note))
process_note(n) ==
    IF n.content_sections = <<>> THEN <<>> ELSE YieldSections(n, n.content_sections)

\* a mutant of process_file: a failure gives no documents and no error
process_file_swallows(file) ==
    IF from_file(file).raised THEN Returned(<<>>)
    ELSE Returned(process_note(from_file(file).value))

\* NoteProcessor.process_file(file_path): any failure is raised as a ValueError
process_file(file) ==
    IF from_file(file).raised THEN Raised
    ELSE Returned(process_note(from_file(file).value))

\* the files Note.from_file is called on.  The text of a file is drawn from
\* lines (an empty line, a line of whitespace, a line of text, a heading, a
\* tags line, a tags line in lower case, a line of aliased, image and plain
\* links) or is one of: a note that opens with a date line and a time line, a
\* padded target with stray brackets, an image with an alias, "Tags:" that does
\* not start its line, a link broken by a line end
NoteFiles ==
    LET pool == { <<>>, <<" ">>, Chars("b"), Chars("# A"), Chars("Tags: [[t]]"),
                  Chars("tags:[[u|v]] [[w.png]]"),
                  Chars("a [[x|y]] b [[z.png]] c [[w]]") }
        further == { Join(<<Chars("1-2-2024"), Chars("3:04 PM"), Chars("# A"),
                            Chars("b")>>),
                     Chars("[[ p |q|r]] s]] [[ "),
                     Chars("[[i.png|j]] [[k|l.png]] [[]]"),
                     Join(<<Chars(" Tags: [[t]]"), Chars("b")>>),
                     Join(<<Chars("[[a"), Chars("b]] [[c]]")>>) }
        texts == {Join(ls) : ls \in SeqsUpTo(pool, MaxLines)} \cup further
        path == Chars("/vault/My Note.md")
    IN  {[path |-> path, status |-> "ok", raw_content |-> t, st_mtime |-> 42] :
             t \in texts}
        \cup {[path |-> path, status |-> st, raw_content |-> <<>>, st_mtime |-> 42] :
                  st \in {"missing", "undecodable"}}

NoteStart ==
    /\ note_file \in NoteFiles
    /\ parsed_note = NoneObj
    /\ note_documents = <<>>
    /\ npc = "start"

\* Note.from_file(file_path)
FromFile ==
    /\ npc = "start"
    /\ IF from_file(note_file).raised
       THEN parsed_note' = parsed_note /\ npc' = "raised"
       ELSE parsed_note' = from_file(note_file).value /\ npc' = "loaded"
    /\ UNCHANGED <<note_file, note_documents>>
    /\ UNCHANGED <<vault_files, files_processed, stored_documents, errors, ipc>>
    /\ UNCHANGED <<parseVars, retrVars, planVars, matchVars>>

\* list(NoteProcessor.process_note(note))
ProcessNote ==
    /\ npc = "loaded"
    /\ note_documents' = process_note(parsed_note)
    /\ npc' = "processed"
    /\ UNCHANGED <<note_file, parsed_note>>
    /\ UNCHANGED <<vault_files, files_processed, stored_documents, errors, ipc>>
    /\ UNCHANGED <<parseVars, retrVars, planVars, matchVars>>

NoteNext == FromFile \/ ProcessNote

----------------------------------------------------------------------------
(* Batch ingestion of a vault: RAGMicroAgent.index_vault, called by src/main.py *)

\* the files VaultScanner.scan yields, every path at most once: two directories
\* hold a file of the same name, and two names differ only in a space and an
\* underscore; a file holds a note of two sections with text or a note whose
\* only heading has no text, or it is missing or cannot be decoded
Vaults ==
    LET paths == { Chars("/v/a/N.md"), Chars("/v/b/N.md"),
                   Chars("/v/my note.md"), Chars("/v/my_note.md") }
        texts == { Join(<<Chars("# A"), Chars("b"), Chars("# A"), Chars("c")>>),
                   Chars("# A") }
        files ==
            {[path |-> p, status |-> "ok", raw_content |-> t, st_mtime |-> 42] :
                 p \in paths, t \in texts}
            \cup {[path |-> p, status |-> st, raw_content |-> <<>>, st_mtime |-> 42] :
                      p \in paths, st \in {"missing", "undecodable"}}
    IN  {v \in SeqsUpTo(files, MaxFiles) :
            \A i, j \in 1..Len(v) : i # j => v[i].path # v[j].path}

IndexStart ==
    /\ vault_files \in Vaults
    /\ files_processed = 0
    /\ stored_documents = <<>>
    /\ errors = <<>>
    /\ ipc = "indexing"

\* one file of the batch: its documents are stored, or its failure is collected
IndexFile ==
    /\ ipc = "indexing"
    /\ files_processed + Len(errors) < Len(vault_files)
    /\ LET file == vault_files[files_processed + Len(errors) + 1]
           processed == process_file(file)
       IN  IF processed.raised
           THEN /\ errors' = Append(errors, file.path)
                /\ UNCHANGED <<files_processed, stored_documents>>
           ELSE /\ files_processed' = files_processed + 1
                /\ stored_documents' = stored_documents \o processed.value
                /\ UNCHANGED errors
    /\ UNCHANGED <<vault_files, ipc>>
    /\ UNCHANGED <<note_file, parsed_note, note_documents, npc>>
    /\ UNCHANGED <<parseVars, retrVars, planVars, matchVars>>

\* the batch is over: status "completed" with files_found, files_processed,
\* documents_added and errors
IndexReturn ==
    /\ ipc = "indexing"
    /\ files_processed + Len(errors) = Len(vault_files)
    /\ ipc' = "completed"
    /\ UNCHANGED <<vault_files, files_processed, stored_documents, errors>>
    /\ UNCHANGED <<note_file, parsed_note, note_documents, npc>>
    /\ UNCHANGED <<parseVars, retrVars, planVars, matchVars>>

IndexNext == IndexFile \/ IndexReturn

----------------------------------------------------------------------------
(* Specifications *)

\* parse_headings is not running
ParseIdle ==
    /\ text = <<>>
    /\ lines = <<>>
    /\ target_level = 0
    /\ sections = <<>>
    /\ section_start = <<>>
    /\ section_id_counter = 0
    /\ ppc = "idle"

\* retrieve_context is not running
RetrieveIdle ==
    /\ query_plan = NoneObj
    /\ store_calls = <<>>
    /\ store_results = NoneObj
    /\ processed_sections = <<>>
    /\ result = NoneObj
    /\ rpc = "idle"

\* deconstruct_query is not running
PlanIdle ==
    /\ user_query = <<>>
    /\ max_retries = 0
    /\ attempt = 0
    /\ completions = <<>>
    /\ sleeps = <<>>
    /\ plan_result = NoneObj
    /\ qpc = "idle"

\* no section is being stored or looked up
MatchIdle ==
    /\ note_tags = <<>>
    /\ note_wikilinks = <<>>
    /\ payload = NoneObj
    /\ scan_filter = NoneObj
    /\ store_matching = "idle"
    /\ matched = FALSE
    /\ mpc = "idle"

\* no file is being read and no batch is running
NoteIdle ==
    /\ note_file = NoneObj
    /\ parsed_note = NoneObj
    /\ note_documents = <<>>
    /\ npc = "idle"

IndexIdle ==
    /\ vault_files = <<>>
    /\ files_processed = 0
    /\ stored_documents = <<>>
    /\ errors = <<>>
    /\ ipc = "idle"

\* one call of parse_headings on any text
ParseInit == ParseStart /\ RetrieveIdle /\ PlanIdle /\ MatchIdle /\ NoteIdle /\ IndexIdle
SpecParse == ParseInit /\ [][ParseNext]_vars

\* one call of retrieve_context (src/src/core/retriever.py) with any plan
RetrieveInit == RetrieveStart /\ ParseIdle /\ PlanIdle /\ MatchIdle /\ NoteIdle /\ IndexIdle
SpecRetrieve == RetrieveInit /\ [][RetrieveNext]_vars

\* one call of the earlier retrieve_context (src/retriever.py) with any plan
SpecLegacyRetrieve == RetrieveInit /\ [][LegacyRetrieveNext]_vars

\* one call of deconstruct_query with any query, against any completion service
PlanInit == PlanStart /\ ParseIdle /\ RetrieveIdle /\ MatchIdle /\ NoteIdle /\ IndexIdle
SpecPlan == PlanInit /\ [][PlanNext]_vars

\* one file is read into a Note and the Note is processed
NoteInit ==
    NoteStart /\ IndexIdle /\ ParseIdle /\ RetrieveIdle /\ PlanIdle /\ MatchIdle
SpecNote == NoteInit /\ [][NoteNext]_vars

\* one batch over the files of any vault
IndexInit ==
    IndexStart /\ NoteIdle /\ ParseIdle /\ RetrieveIdle /\ PlanIdle /\ MatchIdle
SpecIndexVault == IndexInit /\ [][IndexNext]_vars

\* one section of any note is stored, then one filter on tags or wikilinks is
\* translated and handed to the store
MatchInit == MatchStart /\ ParseIdle /\ RetrieveIdle /\ PlanIdle /\ NoteIdle /\ IndexIdle
SpecFilterMatch == MatchInit /\ [][MatchNext]_vars

\* the same call, running to its end: deconstruct_query is sequential code, every
\* completion request returns or raises (the client has a timeout) and time.sleep
\* returns, so a step that can be taken is taken
SpecPlanFair == PlanInit /\ [][PlanNext]_vars /\ WF_vars(PlanNext)

----------------------------------------------------------------------------
(* Properties of parse_headings *)

Min(S) == CHOOSE x \in S : \A y \in S : x <= y
Max(S) == CHOOSE x \in S : \A y \in S : x >= y

\* the positions of the characters of s that are not whitespace
NonSpace(s) == {j \in 1..Len(s) : ~IsSpace(s[j])}

\* s without its leading and trailing whitespace
Trimmed(s) ==
    IF NonSpace(s) = {} THEN <<>> ELSE SubSeq(s, Min(NonSpace(s)), Max(NonSpace(s)))

\* d when the line is exactly d '#' characters, then whitespace; 0 when it is no heading
HeadingDepth(line) ==
    LET ds == {d \in 1..(Len(line) - 1) :
                  /\ \A j \in 1..d : line[j] = "#"
                  /\ IsSpace(line[d + 1])}
    IN  IF ds = {} THEN 0 ELSE Min(ds)

\* the lines of the text that are headings of a depth in 1..6
HeadingLines == {j \in 1..Len(lines) : HeadingDepth(lines[j]) \in 1..MaxHeadingLevel}

\* the trimmed line starts with three backticks
IsFenceLine(line) ==
    /\ NonSpace(line) # {}
    /\ LET p == Min(NonSpace(line))
       IN  /\ p + 2 <= Len(line)
           /\ \A j \in p..(p + 2) : line[j] = BT

\* the lines after line h that are not blank
NonBlankAfter(h) == {j \in (h + 1)..Len(lines) : NonSpace(lines[j]) # {}}

\* the first non-blank line after heading line h opens a fenced code block
CodeTitled(h) == NonBlankAfter(h) # {} /\ IsFenceLine(lines[Min(NonBlankAfter(h))])

\* the first line after h that is a heading of depth <= level, or the line after the last
SectionEnd(h, level) ==
    Min({j \in (h + 1)..Len(lines) : HeadingDepth(lines[j]) \in 1..level}
        \cup {Len(lines) + 1})

\* the fence lines after the fence that opens the code block of code-titled heading h
ClosingFences(h) ==
    {j \in (Min(NonBlankAfter(h)) + 1)..Len(lines) : IsFenceLine(lines[j])}

C5_CodeTitledSectionContent ==
    ppc = "done" =>
        \A k \in 1..Len(sections) :
            LET h == section_start[k]
            IN  (sections[k].level >= 1 /\ CodeTitled(h) /\ ClosingFences(h) # {}) =>
                    sections[k].content =
                        Trimmed(Join(SubSeq(lines, h + 1, Min(ClosingFences(h)))))

\* a code-titled section whose closing fence is followed by a line of text
C5_Witness ==
    /\ ppc = "done"
    /\ \E k \in 1..Len(sections) :
           LET h == section_start[k]
           IN  /\ sections[k].level >= 1
               /\ CodeTitled(h)
               /\ ClosingFences(h) # {}
               /\ Min(ClosingFences(h)) < Len(lines)
               /\ NonSpace(lines[Len(lines)]) # {}

\* C6: the number of sections equals the number of heading lines of a depth in
\* 1..6, or 1 if the text has none.
C6_SectionCount ==
    ppc = "done" =>
        Len(sections) = IF HeadingLines = {} THEN 1 ELSE Cardinality(HeadingLines)

----------------------------------------------------------------------------
(* Properties of retrieve_context *)

SemanticPlan == Get(query_plan, "semantic_search_needed", FALSE)

\* the note path that owns the i-th packaged result: results are packaged one per
\* processed section, in order
OwnerPath(i) == Get(processed_sections[i].metadata, "file_path", None)

\* C1: with semantic_search_needed = true the packaged results hold at most one
\* result per owning note path.
C1_SemanticResultsDeduplicated ==
    (rpc = "packaged" /\ SemanticPlan) =>
        /\ Len(result.results) = Len(processed_sections)
        /\ \A i, j \in 1..Len(result.results) : i # j => OwnerPath(i) # OwnerPath(j)

\* C2: with semantic_search_needed = false the packaged results are the sections
\* the filtered scan returned, one result per section, in the same order.
C2_MetadataResultsNotDeduplicated ==
    (rpc = "packaged" /\ ~SemanticPlan) =>
        LET hits == store_results.hits
            res == result.results
        IN  /\ Len(res) = Len(hits)
            /\ \A i \in 1..Len(hits) :
                   /\ res[i].title = hits[i].metadata.title
                   /\ IF ResponseFormat(query_plan) = "selective_context"
                      THEN /\ res[i].content = hits[i].page_content
                           /\ res[i].metadata = hits[i].metadata
                      ELSE /\ res[i].heading = hits[i].metadata.heading
                           /\ res[i].tags = hits[i].metadata.tags

\* a metadata lookup whose three hits all belong to one note
C2_Witness ==
    /\ rpc = "packaged"
    /\ ~SemanticPlan
    /\ Len(store_results.hits) = 3
    /\ \A i \in 1..3 :
           Get(store_results.hits[i].metadata, "file_path", None) = "/vault/A.md"
    /\ Len(result.results) = 3

\* the hits that name an owning note path
Owned(hits) == {i \in 1..Len(hits) : ~Falsy(Get(hits[i].metadata, "file_path", None))}

\* the hits that are the first of their note path
FirstOfPath(hits) ==
    {i \in Owned(hits) :
        \A j \in Owned(hits) :
            hits[j].metadata.file_path = hits[i].metadata.file_path => i <= j}

KthSmallest(S, k) == CHOOSE x \in S : Cardinality({y \in S : y < x}) = k - 1

\* C3: deduplication keeps, for each owning note path, exactly the first hit with
\* that path, drops every later hit of the path, and keeps the rank order.  (A hit
\* whose metadata names no file_path owns no note and is dropped.)
C3_DeduplicationKeepsFirstPerPath ==
    (rpc \in {"retrieved", "packaged"} /\ SemanticPlan) =>
        LET hits == store_results.hits
            kept == FirstOfPath(hits)
        IN  processed_sections =
                [k \in 1..Cardinality(kept) |->
                    [id |-> hits[KthSmallest(kept, k)].id,
                     metadata |-> hits[KthSmallest(kept, k)].metadata,
                     document |-> hits[KthSmallest(kept, k)].page_content]]

\* two hits of note A around one of note B: A's top hit and B's hit are kept
C3_Witness ==
    /\ rpc = "retrieved"
    /\ SemanticPlan
    /\ Len(store_results.hits) = 3
    /\ Get(store_results.hits[1].metadata, "file_path", None) = "/vault/A.md"
    /\ Get(store_results.hits[2].metadata, "file_path", None) = "/vault/B.md"
    /\ Get(store_results.hits[3].metadata, "file_path", None) = "/vault/A.md"
    /\ Len(processed_sections) = 2
    /\ processed_sections[1].id = store_results.hits[1].id
    /\ processed_sections[2].id = store_results.hits[2].id

----------------------------------------------------------------------------
(* Properties of deconstruct_query *)

\* the default fallback plan for a user query
DefaultPlan(q) ==
    [semantic_search_needed |-> TRUE,
     semantic_query |-> q,
     filters |-> <<>>,
     response_format |-> "selective_context"]

\* deconstruct_query has returned or raised
PlanFinished == qpc \in {"returned", "raised"}

\* the completion is a text that is no JSON and holds no extractable plan object
Unparseable(c) ==
    /\ c.kind = "content"
    /\ ~json_loads(c.content).ok
    /\ ManualExtract(c.content) = <<>>

\* the attempt failed: service error or timeout, no content, or unparseable output
AttemptFailed(c) == c.kind \in {"error", "none"} \/ Unparseable(c)

\* C8: if every one of the max_retries attempts fails, deconstruct_query does not
\* raise and returns the default fallback plan for the original user text.
C8_AllAttemptsFailedGivesDefaultPlan ==
    ( /\ PlanFinished
      /\ Len(completions) = max_retries
      /\ \A i \in 1..Len(completions) : AttemptFailed(completions[i]) )
        => (qpc = "returned" /\ plan_result = DefaultPlan(user_query))

\* C9: an empty or whitespace-only user query returns the default fallback plan,
\* a plan object with semantic_search_needed, semantic_query, filters and
\* response_format.
C9_EmptyQueryGivesDefaultPlan ==
    (PlanFinished /\ NonSpace(user_query) = {}) =>
        /\ qpc = "returned"
        /\ {"semantic_search_needed", "semantic_query", "filters", "response_format"}
               \subseteq DOMAIN plan_result
        /\ plan_result = DefaultPlan(user_query)

\* C10: a parse failure on an attempt before the last, whose raw text holds no
\* extractable plan object, is followed by another completion request; the default
\* plan is returned only after all max_retries attempts have failed.
C10_DefaultPlanOnlyAfterAllAttempts ==
    PlanFinished =>
        \A i \in 1..Len(completions) :
            (i < max_retries /\ Unparseable(completions[i])) => Len(completions) > i

\* the user query is not blank
NonBlankQuery == NonSpace(user_query) # {}

\* the requests made so far and the waits between them
RetrySchedule ==
    /\ Len(completions) <= max_retries
    /\ \A k \in 1..(Len(completions) - 1) : AttemptFailed(completions[k])
    /\ \A k \in 1..Len(sleeps) : sleeps[k] = 2^k
    /\ qpc = "request" => Len(sleeps) = Len(completions)
    /\ qpc \in {"backoff", "exhausted", "returned", "raised"} =>
           Len(sleeps) = Len(completions) - 1
    /\ qpc = "backoff" => Len(completions) < max_retries

\* C11: a call with a non-blank query makes at most max_retries completion
\* requests, makes request k+1 only after request k failed, has waited 2^k seconds
\* between request k and request k+1 and nothing after the last request, and the
\* call always comes to an end.
C11_BoundedRetriesWithBackoff ==
    /\ [](NonBlankQuery => RetrySchedule)
    /\ (NonBlankQuery ~> PlanFinished)

\* three failed requests with waits of 2 and 4 seconds between them
C11_Witness ==
    /\ NonBlankQuery
    /\ PlanFinished
    /\ max_retries = 3
    /\ Len(completions) = 3
    /\ sleeps = <<2, 4>>

\* the last completion received
LastCompletion == completions[Len(completions)]

\* the balanced-brace JSON objects of a text that hold the required keys, as
\* <<first, last>> piece
BalancedPlanObjects(toks) ==
    {sp \in (1..Len(toks)) \X (1..Len(toks)) :
        /\ sp[1] < sp[2]
        /\ toks[sp[1]] = "{"
        /\ json_loads(SubSeq(toks, sp[1], sp[2])).ok
        /\ RequiredKeys \subseteq DOMAIN json_loads(SubSeq(toks, sp[1], sp[2])).value}

\* the first of them, as a plan
FirstPlanObject(toks) ==
    LET sp == CHOOSE sp \in BalancedPlanObjects(toks) :
                  \A other \in BalancedPlanObjects(toks) : sp[1] <= other[1]
    IN  json_loads(SubSeq(toks, sp[1], sp[2])).value

\* the completion is a text that is no JSON but holds a plan object
HoldsPlanObject(c) ==
    /\ c.kind = "content"
    /\ ~json_loads(c.content).ok
    /\ BalancedPlanObjects(Strip(c.content)) # {}

\* C12: when the completion text is not valid JSON but holds a balanced-brace JSON
\* object with the required keys, the first such object is returned as the plan,
\* also when its filters list holds nested filter objects.
C12_RelaxedExtractionReturnsFirstPlanObject ==
    (qpc = "returned" /\ completions # <<>> /\ HoldsPlanObject(LastCompletion)) =>
        plan_result = FirstPlanObject(Strip(LastCompletion.content))

\* C13: a returned default fallback plan carries the original user query text as
\* its semantic_query.
C13_FallbackPlanCarriesUserQuery ==
    (qpc = "returned" /\ completions # <<>> /\ Unparseable(LastCompletion)) =>
        plan_result.semantic_query = user_query

\* the plan is valid
ValidPlan(plan) ==
    /\ Get(plan, "semantic_search_needed", FALSE) =>
           Get(plan, "semantic_query", <<>>) # <<>>
    /\ \A i \in 1..Len(Get(plan, "filters", <<>>)) :
           /\ Get(plan.filters[i], "field", None) \in FilterFields
           /\ Get(plan.filters[i], "operator", None) \in FilterOperators
    /\ Get(plan, "response_format", None) \in ResponseFormats

\* C14: every plan deconstruct_query returns is valid: a semantic search has a
\* non-empty semantic_query, every filter's field and operator are of the
\* enumerated sets, and response_format is metadata_only or selective_context.
C14_ReturnedPlanIsValid ==
    (qpc = "returned" /\ NonBlankQuery) => ValidPlan(plan_result)

----------------------------------------------------------------------------
(* Further properties of retrieve_context *)

\* retrieve_context can go on to package what it retrieved
CanPackage == ENABLED (PackageSelectiveContext \/ PackageMetadataOnly)

C16_PackagedResultShape ==
    rpc = "packaged" =>
        \A i \in 1..Len(result.results) :
            /\ ResponseFormat(query_plan) = "metadata_only" =>
                   DOMAIN result.results[i] = {"id", "title", "heading", "tags"}
            /\ ResponseFormat(query_plan) = "selective_context" =>
                   /\ DOMAIN result.results[i] = {"id", "title", "content", "metadata"}
                   /\ result.results[i].content # None

\* two sections packaged as metadata_only
C16_Witness ==
    /\ rpc = "packaged"
    /\ "response_format" \in DOMAIN query_plan
    /\ query_plan.response_format = "metadata_only"
    /\ Len(result.results) = 2
    /\ "content" \notin DOMAIN result.results[1]

\* C17: when the store returns no hits the call returns {results: []}, for either
\* response format and on either path, and raises nothing.
C17_ZeroHitsGiveEmptyResults ==
    (rpc # "planned" /\ ~store_results.failed /\ store_results.hits = <<>>) =>
        /\ rpc # "raised"
        /\ rpc = "retrieved" => CanPackage
        /\ rpc = "packaged" => result = [results |-> <<>>]

\* a semantic search without hits, packaged as selective_context
C17_Witness ==
    /\ rpc = "packaged"
    /\ SemanticPlan
    /\ ResponseFormat(query_plan) = "selective_context"
    /\ ~store_results.failed
    /\ store_results.hits = <<>>
    /\ result = [results |-> <<>>]

\* C18: when the vector-store or embedding call fails, the call returns a result
\* with zero entries, {results: []}, and no exception leaves retrieve_context.
C18_StoreFailureGivesEmptyResults ==
    (rpc # "planned" /\ store_results.failed) =>
        /\ rpc # "raised"
        /\ rpc = "retrieved" => CanPackage
        /\ rpc = "packaged" => result = [results |-> <<>>]

\* a semantic search whose store call failed, packaged
C18_Witness ==
    /\ rpc = "packaged"
    /\ SemanticPlan
    /\ store_results.failed
    /\ result = [results |-> <<>>]

\* the conditions a predicate holds, all of which must hold: none for the
\* unconstrained predicate (None), the list under "$and", else the one condition
Conditions(where) ==
    IF where = NoneObj THEN <<>>
    ELSE IF "$and" \in DOMAIN where THEN where["$and"]
    ELSE <<where>>

\* the condition is the (field, operator, value) of the filter and nothing else
ConditionOf(cond, f) ==
    /\ DOMAIN cond = {f.field}
    /\ DOMAIN cond[f.field] = {f.operator}
    /\ cond[f.field][f.operator] = f.value

\* C19: the predicate built from a filter list holds exactly one (field, operator,
\* value) condition per filter, in the order of the list, all of which must hold;
\* no filter is dropped, altered or added, and the empty list gives the
\* unconstrained predicate.
C19_OneConditionPerFilter ==
    store_calls # <<>> =>
        LET where == store_calls[1].filter_dict
            filters == Get(query_plan, "filters", <<>>)
        IN  /\ Len(Conditions(where)) = Len(filters)
            /\ \A i \in 1..Len(filters) : ConditionOf(Conditions(where)[i], filters[i])
            /\ filters = <<>> => where = NoneObj

\* three filters, two of them on the same field, translated to three conditions
C19_Witness ==
    /\ store_calls # <<>>
    /\ Len(query_plan.filters) = 3
    /\ query_plan.filters[1].field = query_plan.filters[3].field
    /\ "$and" \in DOMAIN store_calls[1].filter_dict
    /\ Len(store_calls[1].filter_dict["$and"]) = 3

----------------------------------------------------------------------------
(* Properties of a filter on a list-valued field *)

\* the list the section holds for a field
SectionList(field) == IF field = "tags" THEN note_tags ELSE note_wikilinks

\* the values a filter supplies, a scalar v standing for [v]
FilterValueSet(value) ==
    IF "list" \in DOMAIN value
    THEN {value.list[i] : i \in 1..Len(value.list)}
    ELSE {value.str}

\* C20: a filter with operator contains on a list-valued field (tags, wikilinks)
\* matches a stored section exactly when the section's list for that field holds
\* at least one of the supplied values, a scalar v being the one-element list [v].
C20_ContainsMatchesAnySuppliedValue ==
    mpc = "scanned" =>
        (matched <=>
            \E i \in 1..Len(SectionList(scan_filter.field)) :
                SectionList(scan_filter.field)[i] \in FilterValueSet(scan_filter.value))

----------------------------------------------------------------------------
(* Further properties of parse_headings *)

\* C21: the i-th returned section has the id i - 1 ("0", "1", ..., "n-1"), so ids
\* are unique within a note; the sections come out depth by depth, depth 1 to 6,
\* and in line order within one depth; the counter starts at 0 on every call.
C21_IdsFollowEmissionOrder ==
    /\ ppc = "scan" /\ target_level = 1 => section_id_counter = 0
    /\ ppc = "done" =>
           /\ \A i \in 1..Len(sections) : sections[i].id = ToStr(i - 1)
           /\ \A i, j \in 1..Len(sections) :
                  i # j => sections[i].id # sections[j].id
           /\ \A i, j \in 1..Len(sections) :
                  i < j =>
                      \/ sections[i].level < sections[j].level
                      \/ /\ sections[i].level = sections[j].level
                         /\ section_start[i] < section_start[j]

\* a depth-2 heading between two depth-1 headings comes out last, with id 2
C21_Witness ==
    /\ ppc = "done"
    /\ Len(sections) = 3
    /\ sections[2].level = 1
    /\ sections[3].level = 2
    /\ section_start[3] < section_start[2]
    /\ sections[3].id = <<"2">>

\* the lines that section k was built from: the lines after its heading line up to
\* where its content loop stopped
ContentLinesOf(k) ==
    LET start == section_start[k]
        stop == IF is_heading_followed_by_code(lines, start)
                THEN CodeTitledLoop(lines, start + 1, FALSE, <<>>).i
                ELSE RegularLoop(lines, start + 1, sections[k].level, <<>>).i
    IN  (start + 1)..(stop - 1)

\* C28: when the body has a heading line, every line with text after the first
\* heading line is the heading line of a returned section or one of the content
\* lines of a returned section, also after the closing fence of a code-titled
\* section.
C28_NoTextLostAfterFirstHeading ==
    (ppc = "done" /\ HeadingLines # {}) =>
        \A j \in (Min(HeadingLines) + 1)..Len(lines) :
            NonSpace(lines[j]) # {} =>
                \E k \in 1..Len(sections) :
                    \/ section_start[k] = j
                    \/ j \in ContentLinesOf(k)

----------------------------------------------------------------------------
(* Further properties of deconstruct_query *)

\* C27: for a user query that is empty or holds only whitespace, deconstruct_query
\* sends no request to the completion service, at any point of the call.
C27_BlankQueryMakesNoRequest ==
    NonSpace(user_query) = {} =>
        /\ completions = <<>>
        /\ qpc \in {"start", "returned"}

\* the whitespace-only query has returned
C27_Witness ==
    /\ qpc = "returned"
    /\ Len(user_query) > 0
    /\ NonSpace(user_query) = {}
    /\ completions = <<>>

----------------------------------------------------------------------------
(* Further properties of retrieve_context *)

\* C30: the id of every packaged result is the document id under which its
\* section was stored ("<file name>::<section id>"), whatever the position of
\* the section in the hit list.
C30_PackagedIdIsStoredId ==
    rpc = "packaged" =>
        /\ Len(result.results) = Len(store_results.hits)
        /\ \A i \in 1..Len(result.results) :
               result.results[i].id = store_results.hits[i].id

----------------------------------------------------------------------------
(* Properties of the note pipeline *)

\* "]]" stands at position e of t
ClosesAt(t, e) == e + 1 <= Len(t) /\ t[e] = "]" /\ t[e + 1] = "]"

\* "[[" stands at position s of t and a "]]" follows it before the line ends
OpensLink(t, s) ==
    /\ s + 3 <= Len(t)
    /\ t[s] = "["
    /\ t[s + 1] = "["
    /\ \E e \in (s + 2)..(Len(t) - 1) :
           /\ ClosesAt(t, e)
           /\ \A k \in (s + 2)..(e - 1) : t[k] # NL

\* the [[...]] occurrences of t, by the position of their "[[": an opening that
\* does not lie inside an occurrence opened earlier
Occurrences(t) ==
    {s \in 1..Len(t) :
        /\ OpensLink(t, s)
        /\ \A s2 \in 1..(s - 1) :
               OpensLink(t, s2) => \E e \in (s2 + 2)..(s - 2) : ClosesAt(t, e)}

\* what stands between the "[[" at s and the first "]]" after it
Inner(t, s) ==
    SubSeq(t, s + 2, Min({e \in (s + 2)..(Len(t) - 1) : ClosesAt(t, e)}) - 1)

\* the target of a link: what stands before its first '|', trimmed
TargetOf(link) ==
    Trimmed(SubSeq(link, 1,
                   Min({i \in 1..Len(link) : link[i] = "|"} \cup {Len(link) + 1}) - 1))

IsImage(target) ==
    Len(target) >= 4 /\ SubSeq(target, Len(target) - 3, Len(target)) = <<".", "p", "n", "g">>

\* the i-th smallest element of a set of numbers
Nth(S, i) == CHOOSE x \in S : Cardinality({y \in S : y < x}) = i - 1

\* the targets of the occurrences of t in order, without the images
LinkTargets(t) ==
    LET kept == {s \in Occurrences(t) : ~IsImage(TargetOf(Inner(t, s)))}
    IN  [i \in 1..Cardinality(kept) |-> TargetOf(Inner(t, Nth(kept, i)))]

\* the lines of the text of the file
RawLines == Split(note_file.raw_content)

\* the lines of the file that start with "tags:", whatever the case
TagsLines ==
    {i \in 1..Len(RawLines) :
        /\ Len(RawLines[i]) >= 5
        /\ lower(SubSeq(RawLines[i], 1, 5)) = <<"t", "a", "g", "s", ":">>}

\* C22: extract_wikilinks returns, in order, one entry per [[...]] occurrence of
\* its text: the target before the first '|', trimmed; targets that end in .png
\* are left out; a text without wikilinks gives the empty list.  (The body and
\* the Tags line of a note are the texts it is applied to.)
C22_WikilinksAreCleanTargetsInOrder ==
    npc = "loaded" =>
        /\ parsed_note.wikilinks = LinkTargets(parsed_note.note_body)
        /\ TagsLines # {} =>
               parsed_note.tag_wikilinks = LinkTargets(RawLines[Min(TagsLines)])
        /\ Occurrences(parsed_note.note_body) = {} => parsed_note.wikilinks = <<>>

\* extractWikilinks("a [[x|y]] b [[z.png]] c [[w]]") == ["x", "w"]
C22_Witness ==
    /\ npc = "loaded"
    /\ parsed_note.note_body = Chars("a [[x|y]] b [[z.png]] c [[w]]")
    /\ parsed_note.wikilinks = <<Chars("x"), Chars("w")>>

\* the line holds nothing but whitespace
BlankLine(i) == NonSpace(RawLines[i]) = {}

\* the first line after the Tags line, the block of lines with text that follows
\* it, and the blank lines after that block
BodyStart ==
    LET after_block == Min({i \in (Min(TagsLines) + 1)..Len(RawLines) : BlankLine(i)}
                           \cup {Len(RawLines) + 1})
    IN  Min({i \in after_block..Len(RawLines) : ~BlankLine(i)}
            \cup {Len(RawLines) + 1})

\* C23: parse_body returns the text that starts after the first line beginning
\* with "Tags:" (in any case), the contiguous block of non-empty lines after it
\* and the blank lines after that block, trimmed; without such a line it returns
\* the whole input, trimmed.  The sections of the note are built from that text.
\* (A line is empty when it holds nothing but whitespace.)
C23_BodyStartsAfterTagsBlock ==
    npc = "loaded" =>
        /\ parsed_note.note_body =
               IF TagsLines = {} THEN Trimmed(note_file.raw_content)
               ELSE Trimmed(Join(SubSeq(RawLines, BodyStart, Len(RawLines))))
        /\ parsed_note.content_sections = parse_headings(parsed_note.note_body)
        /\ parsed_note.wikilinks = extract_wikilinks(parsed_note.note_body)

\* a Tags line, one more line of tags, a blank line, then the body
C23_Witness ==
    /\ npc = "loaded"
    /\ Len(RawLines) = 4
    /\ TagsLines = {1}
    /\ ~BlankLine(2)
    /\ BlankLine(3)
    /\ ~BlankLine(4)
    /\ parsed_note.note_body = RawLines[4]

\* the sections of the note whose content is not blank, by their position
SectionsWithText ==
    {i \in 1..Len(parsed_note.content_sections) :
        NonSpace(parsed_note.content_sections[i].content) # {}}

\* C26: process_note yields exactly one document per section whose content is
\* not blank, in section order, and none for a section whose content is empty
\* or whitespace; a note whose only heading has no text under it yields no
\* document.
C26_OneDocumentPerSectionWithText ==
    npc = "processed" =>
        /\ Len(note_documents) = Cardinality(SectionsWithText)
        /\ \A k \in 1..Len(note_documents) :
               LET section == parsed_note.content_sections[Nth(SectionsWithText, k)]
               IN  /\ note_documents[k].id =
                          generate_document_id(note_file.path, section.id)
                   /\ note_documents[k].metadata.heading = section.heading
                   /\ note_documents[k].metadata.level = section.level
        /\ (/\ Len(parsed_note.content_sections) = 1
            /\ parsed_note.content_sections[1].level > 0
            /\ NonSpace(parsed_note.content_sections[1].content) = {})
               => note_documents = <<>>

\* a heading without text, then a heading with text: one document, for the
\* second section
C26_Witness ==
    /\ npc = "processed"
    /\ Len(parsed_note.content_sections) = 2
    /\ SectionsWithText = {2}
    /\ Len(note_documents) = 1
    /\ note_documents[1].id = Chars("My_Note.md::1")

\* the keys the metadata of a stored document has to hold
RequiredMetadataKeys ==
    {"title", "file_path", "heading", "level", "tags", "wikilinks",
     "created_date", "modified_date", "section_id"}

\* the value is a Python int (a str is PyStr, a list is PyList)
IsPyInt(value) == DOMAIN value = {"int"}

\* C24: the metadata of every document produced for storage holds the keys
\* title, file_path, heading, level, tags, wikilinks, created_date,
\* modified_date and section_id, and its two dates are integer epoch timestamps.
C24_MetadataKeysAndEpochDates ==
    npc = "processed" =>
        \A k \in 1..Len(note_documents) :
            /\ RequiredMetadataKeys \subseteq DOMAIN note_documents[k].metadata
            /\ IsPyInt(note_documents[k].metadata.created_date)
            /\ IsPyInt(note_documents[k].metadata.modified_date)

----------------------------------------------------------------------------
(* Properties of batch ingestion *)

\* the files of the vault that can be read, and those that cannot
ReadableFiles == {k \in 1..Len(vault_files) : vault_files[k].status = "ok"}
FailingFiles == {k \in 1..Len(vault_files) : vault_files[k].status # "ok"}

C29_DocumentIdsUniqueAcrossVault ==
    \A i, j \in 1..Len(stored_documents) :
        i # j => stored_documents[i].id # stored_documents[j].id

====
